---- MODULE Spec2Model ----
(***************************************************************************)
(* Model of kitstarter's velocity-range / crossfade engine:                *)
(*   gui/samples_widget.py  (SampleTrack, ButtonsTrack, SamplesWidget)     *)
(*   starter_kits.py        (StarterInstrument, StarterSample)             *)
(* One SamplesWidget editing one StarterInstrument.  Every action is one   *)
(* Qt event handler, run to completion (single-threaded event loop).       *)
(* Amplitudes are kept as integer multiples of 1/1270, so that both v/127   *)
(* (v2a) and the one-decimal values of a written file are integers: 0.0 is *)
(* 0, 1.0 is 1270 and v2a(v) = v/127 is 10 * v.                            *)
(***************************************************************************)
EXTENDS Integers, Sequences, FiniteSets, TLC

(* ---- program constants (gui/samples_widget.py) ---- *)
FEATURE_LOVEL == 1
FEATURE_HIVEL == 2
SNAP_RANGE == 5
TRACK_WIDTH == 224
MAX_VELOCITY == 127

(* ---- bounds of the model ---- *)
\* samples one editing session attaches to the instrument at a time
MaxTracks == 2
\* ranges of the instruments the curve builder is run on (SpecCurve)
CurveTracks == 3
\* ranges of the instruments Spread is run on (SpecSpread)
SpreadTracks == 4

Paths == 1 .. MaxTracks
\* raw mouse x coordinates of an editing session: left of the track, inside
\* it (velocity 69) and right of it
MouseXs == {-9, 122, 300}
\* raw mouse x coordinates of a drag session: velocities 0, 68, 69, 72, 80,
\* 96 and 127
DragXs == {-9, 120, 122, 127, 141, 169, 300}
\* values the volume spin box is set to (thousandths of a dB; the spin box
\* keeps two decimals)
Volumes == {0, -3000}
\* boundaries of the ranges the curve builder is run on (SpecCurve)
CurveVels == {0, 50, 70, 127}

VARIABLES
    samples,        \* StarterInstrument.samples: dict in insertion order
    tracks,         \* SamplesWidget.tracks: the SampleTracks in display order
    chk_snap,       \* SamplesWidget.chk_snap.isChecked()
    chk_crossfade,  \* SamplesWidget.chk_crossfade.isChecked()
    update_timer,   \* SamplesWidget.update_timer.isActive()
    closed,         \* MainWindow.closeEvent has run
    kit,            \* StarterKit.instruments of a kit used through its methods
    stream,         \* the lines StarterKit.write wrote, << >> before any write
    linked,         \* SamplesWidget.instrument is the snare of MainWindow.kit
    last            \* the handler that ran last, with its inputs (history)

vars == <<samples, tracks, chk_snap, chk_crossfade, update_timer, closed,
          kit, stream, linked, last>>

(* ---- arithmetic helpers ---- *)
Max(a, b) == IF a >= b THEN a ELSE b
Min(a, b) == IF a <= b THEN a ELSE b
Abs(a) == IF a < 0 THEN -a ELSE a

\* Python's round(n / d) for d > 0: round half to even
Round(n, d) ==
    LET q == n \div d
        r == n % d
    IN  IF 2 * r < d THEN q
        ELSE IF 2 * r > d THEN q + 1
        ELSE IF q % 2 = 0 THEN q ELSE q + 1

\* _Track.x2v with v2x_scale = width / 127 and the fixed width of a SampleTrack
x2v(x) == Max(0, Min(MAX_VELOCITY, Round(x * MAX_VELOCITY, TRACK_WIDTH)))

\* _Track.v2a, in units of 1/1270
v2a(velocity) == 10 * velocity

Velcurve(velocity, amplitude) == [velocity |-> velocity, amplitude |-> amplitude]

(* ---- the instrument's samples ---- *)
StarterSample(path) ==
    [path |-> path, lovel |-> 0, hivel |-> MAX_VELOCITY, volume |-> 0,
     vtpoints |-> << >>, dirty |-> FALSE]

has_sample(path) == \E i \in DOMAIN samples : samples[i].path = path

IndexOf(smps, path) == CHOOSE i \in DOMAIN smps : smps[i].path = path

SampleOf(smps, path) == smps[IndexOf(smps, path)]

\* the lovel setter without self.dirty = True
SetLovel_clean(smps, path, value) ==
    [smps EXCEPT ![IndexOf(smps, path)].lovel = value]

\* property setters of StarterSample: each one also sets dirty
SetLovel(smps, path, value) ==
    [smps EXCEPT ![IndexOf(smps, path)].lovel = value,
                 ![IndexOf(smps, path)].dirty = TRUE]

SetHivel(smps, path, value) ==
    [smps EXCEPT ![IndexOf(smps, path)].hivel = value,
                 ![IndexOf(smps, path)].dirty = TRUE]

SetVolume(smps, path, value) ==
    [smps EXCEPT ![IndexOf(smps, path)].volume = value,
                 ![IndexOf(smps, path)].dirty = TRUE]

SetVtpoints(smps, path, value) ==
    [smps EXCEPT ![IndexOf(smps, path)].vtpoints = value,
                 ![IndexOf(smps, path)].dirty = TRUE]

RemoveAt(seq, i) == SubSeq(seq, 1, i - 1) \o SubSeq(seq, i + 1, Len(seq))

Swap(seq, i, j) == [seq EXCEPT ![i] = seq[j], ![j] = seq[i]]

(* ---- overlap detection ---- *)
Overlap(lovel, hivel, t1, t2) ==
    [lovel |-> lovel, hivel |-> hivel, t1 |-> t1, t2 |-> t2]

\* overlap with the final test written lovel <= hivel
overlap_inclusive(self, other_track) ==
    LET lovel == Max(other_track.lovel, self.lovel)
        hivel == Min(other_track.hivel, self.hivel)
    IN  IF lovel <= hivel
        THEN << Overlap(lovel, hivel, self.path, other_track.path) >>
        ELSE << >>

\* SampleTrack.overlap: << >> stands for None, <<o>> for an Overlap
overlap(self, other_track) ==
    LET lovel == Max(other_track.lovel, self.lovel)
        hivel == Min(other_track.hivel, self.hivel)
    IN  IF lovel < hivel
        THEN << Overlap(lovel, hivel, self.path, other_track.path) >>
        ELSE << >>

\* list.sort(key = overlap.lovel): stable, ascending
RECURSIVE InsertByLovel(_, _)
InsertByLovel(sorted, o) ==
    IF sorted = << >> THEN << o >>
    ELSE IF Head(sorted).lovel <= o.lovel
         THEN << Head(sorted) >> \o InsertByLovel(Tail(sorted), o)
         ELSE << o >> \o sorted

RECURSIVE SortByLovel(_)
SortByLovel(seq) ==
    IF seq = << >> THEN << >>
    ELSE InsertByLovel(SortByLovel(SubSeq(seq, 1, Len(seq) - 1)), seq[Len(seq)])

RECURSIVE MidPoints(_)
MidPoints(mids) ==
    IF mids = << >> THEN << >>
    ELSE LET m == Head(mids)
             center == m.lovel + Round(m.hivel - m.lovel, 2)
         IN  << Velcurve(m.lovel, v2a(m.lovel)),
                Velcurve(center, 0),
                Velcurve(m.hivel, v2a(m.hivel)) >> \o MidPoints(Tail(mids))

\* update_vtpoints with the two amplitudes of the hi_overlap branch exchanged
update_vtpoints_swapped(lovel, hivel, overlaps) ==
    IF overlaps = << >>
    THEN [vtpoints |-> << >>, overlaps |-> << >>]
    ELSE LET sorted == SortByLovel(overlaps)
             has_lo == sorted[1].lovel = lovel
             rest1  == IF has_lo THEN Tail(sorted) ELSE sorted
             has_hi == rest1 # << >> /\ rest1[Len(rest1)].hivel = hivel
             mids   == IF has_hi THEN SubSeq(rest1, 1, Len(rest1) - 1) ELSE rest1
             lo_pts == IF has_lo
                       THEN << Velcurve(lovel, 0),
                               Velcurve(sorted[1].hivel, v2a(sorted[1].hivel)) >>
                       ELSE << Velcurve(lovel, v2a(lovel)) >>
             hi_pts == IF has_hi
                       THEN << Velcurve(rest1[Len(rest1)].lovel, 0),
                               Velcurve(hivel, v2a(hivel)) >>
                       ELSE << Velcurve(hivel, v2a(hivel)) >>
         IN  [vtpoints |-> lo_pts \o MidPoints(mids) \o hi_pts,
              overlaps |-> mids]

\* update_vtpoints with full amplitude at the inner end of lo_overlap and hi_overlap
update_vtpoints_full(lovel, hivel, overlaps) ==
    IF overlaps = << >>
    THEN [vtpoints |-> << >>, overlaps |-> << >>]
    ELSE LET sorted == SortByLovel(overlaps)
             has_lo == sorted[1].lovel = lovel
             rest1  == IF has_lo THEN Tail(sorted) ELSE sorted
             has_hi == rest1 # << >> /\ rest1[Len(rest1)].hivel = hivel
             mids   == IF has_hi THEN SubSeq(rest1, 1, Len(rest1) - 1) ELSE rest1
             lo_pts == IF has_lo
                       THEN << Velcurve(lovel, 0),
                               Velcurve(sorted[1].hivel, v2a(MAX_VELOCITY)) >>
                       ELSE << Velcurve(lovel, v2a(lovel)) >>
             hi_pts == IF has_hi
                       THEN << Velcurve(rest1[Len(rest1)].lovel,
                                        v2a(MAX_VELOCITY)),
                               Velcurve(hivel, 0) >>
                       ELSE << Velcurve(hivel, v2a(hivel)) >>
         IN  [vtpoints |-> lo_pts \o MidPoints(mids) \o hi_pts,
              overlaps |-> mids]

\* update_vtpoints that emits the two end points also when there is no overlap
update_vtpoints_endpoints(lovel, hivel, overlaps) ==
    IF overlaps = << >>
    THEN [vtpoints |-> << Velcurve(lovel, v2a(lovel)), Velcurve(hivel, v2a(hivel)) >>,
          overlaps |-> << >>]
    ELSE LET sorted == SortByLovel(overlaps)
             has_lo == sorted[1].lovel = lovel
             rest1  == IF has_lo THEN Tail(sorted) ELSE sorted
             has_hi == rest1 # << >> /\ rest1[Len(rest1)].hivel = hivel
             mids   == IF has_hi THEN SubSeq(rest1, 1, Len(rest1) - 1) ELSE rest1
             lo_pts == IF has_lo
                       THEN << Velcurve(lovel, 0),
                               Velcurve(sorted[1].hivel, v2a(sorted[1].hivel)) >>
                       ELSE << Velcurve(lovel, v2a(lovel)) >>
             hi_pts == IF has_hi
                       THEN << Velcurve(rest1[Len(rest1)].lovel,
                                        v2a(rest1[Len(rest1)].lovel)),
                               Velcurve(hivel, 0) >>
                       ELSE << Velcurve(hivel, v2a(hivel)) >>
         IN  [vtpoints |-> lo_pts \o MidPoints(mids) \o hi_pts,
              overlaps |-> mids]

\* SampleTrack.update_vtpoints: the new vtpoints of the sample and what is
\* left in self.overlaps (the list is sorted and popped in place)
update_vtpoints(lovel, hivel, overlaps) ==
    IF overlaps = << >>
    THEN [vtpoints |-> << >>, overlaps |-> << >>]
    ELSE LET sorted == SortByLovel(overlaps)
             has_lo == sorted[1].lovel = lovel
             rest1  == IF has_lo THEN Tail(sorted) ELSE sorted
             has_hi == rest1 # << >> /\ rest1[Len(rest1)].hivel = hivel
             mids   == IF has_hi THEN SubSeq(rest1, 1, Len(rest1) - 1) ELSE rest1
             lo_pts == IF has_lo
                       THEN << Velcurve(lovel, 0),
                               Velcurve(sorted[1].hivel, v2a(sorted[1].hivel)) >>
                       ELSE << Velcurve(lovel, v2a(lovel)) >>
             hi_pts == IF has_hi
                       THEN << Velcurve(rest1[Len(rest1)].lovel,
                                        v2a(rest1[Len(rest1)].lovel)),
                               Velcurve(hivel, 0) >>
                       ELSE << Velcurve(hivel, v2a(hivel)) >>
         IN  [vtpoints |-> lo_pts \o MidPoints(mids) \o hi_pts,
              overlaps |-> mids]

\* itertools.combinations(range(1, n + 1), 2), from the pair (i, j) on
RECURSIVE Combinations(_, _, _)
Combinations(i, j, n) ==
    IF i >= n THEN << >>
    ELSE IF j > n THEN Combinations(i + 1, i + 2, n)
    ELSE << <<i, j>> >> \o Combinations(i, j + 1, n)

\* SamplesWidget.clear_overlaps
clear_overlaps(trks) ==
    << >> \o [k \in DOMAIN trks |-> [trks[k] EXCEPT !.overlaps = << >>]]

\* the first loop of find_overlaps: each overlap found is appended to the
\* overlaps of both tracks of the pair
RECURSIVE RecordOverlaps(_, _, _)
RecordOverlaps(smps, trks, pairs) ==
    IF pairs = << >> THEN trks
    ELSE LET i == Head(pairs)[1]
             j == Head(pairs)[2]
             o == overlap(SampleOf(smps, trks[i].path), SampleOf(smps, trks[j].path))
         IN  RecordOverlaps(
                smps,
                IF o = << >> THEN trks
                ELSE [trks EXCEPT ![i].overlaps = Append(@, o[1]),
                                  ![j].overlaps = Append(@, o[1])],
                Tail(pairs))

\* RecordedOverlaps without the clear_overlaps() that opens find_overlaps
RecordedOverlaps_kept(smps, trks) ==
    RecordOverlaps(smps, trks, Combinations(1, 2, Len(trks)))

\* the overlaps lists find_overlaps hands to update_vtpoints
RecordedOverlaps(smps, trks) ==
    RecordOverlaps(smps, clear_overlaps(trks), Combinations(1, 2, Len(trks)))

\* the second loop of find_overlaps: update_vtpoints on every track
RECURSIVE StoreVtpoints(_, _, _)
StoreVtpoints(smps, rec, k) ==
    IF k > Len(rec) THEN smps
    ELSE LET s == SampleOf(smps, rec[k].path)
             r == update_vtpoints(s.lovel, s.hivel, rec[k].overlaps)
         IN  StoreVtpoints(SetVtpoints(smps, s.path, r.vtpoints), rec, k + 1)

\* SamplesWidget.find_overlaps: the samples and the tracks it leaves
find_overlaps(smps, trks) ==
    LET rec == RecordedOverlaps(smps, trks)
    IN  [samples |-> StoreVtpoints(smps, rec, 1),
         tracks  |-> << >> \o
                     [k \in DOMAIN rec |->
                        LET s == SampleOf(smps, rec[k].path)
                        IN  [rec[k] EXCEPT !.overlaps =
                               update_vtpoints(s.lovel, s.hivel,
                                               rec[k].overlaps).overlaps]]]

(* ---- the kit and its serialization (starter_kits.py) ---- *)
\* the instruments of the model's kit: snare and closed hi-hat
Pitches == {38, 42}

\* the pitches iter_pitch_by_group() yields, in its order
PitchOrder == <<38, 42>>

\* PITCH_GROUPS[pitch] == 'high_hats'
HighHats == {42}

\* StarterKit.__init__ without a filename: every instrument without samples
StarterKit == [pitch \in Pitches |-> << >>]

\* one line of an .sfz file: "<header>", "opcode=value" or "opcode_n=value";
\* value is the number printed, in units of its last decimal
Line(tag, n, value) == [tag |-> tag, n |-> n, value |-> value]

\* f'{volume:.2f}': hundredths of a dB
Format2(volume) == Round(volume, 10)

\* f'{amplitude:.1f}': tenths
Format1(amplitude) == Round(amplitude, 127)

\* the loop of StarterSample.write over self._vtpoints
RECURSIVE points_write(_)
points_write(points) ==
    IF points = << >> THEN << >>
    ELSE << Line("amp_velcurve", Head(points).velocity,
                 Format1(Head(points).amplitude)) >>
         \o points_write(Tail(points))

\* StarterSample.write with lovel written whenever it is >= 0
sample_write_lovel(sample) ==
    << Line("<region>", 0, 0), Line("sample", 0, sample.path) >>
    \o (IF sample.volume # 0
        THEN << Line("volume", 0, Format2(sample.volume)) >> ELSE << >>)
    \o (IF sample.lovel >= 0 THEN << Line("lovel", 0, sample.lovel) >> ELSE << >>)
    \o (IF sample.hivel < 127 THEN << Line("hivel", 0, sample.hivel) >> ELSE << >>)
    \o points_write(sample.vtpoints)

\* StarterSample.write
sample_write(sample) ==
    << Line("<region>", 0, 0), Line("sample", 0, sample.path) >>
    \o (IF sample.volume # 0
        THEN << Line("volume", 0, Format2(sample.volume)) >> ELSE << >>)
    \o (IF sample.lovel > 0 THEN << Line("lovel", 0, sample.lovel) >> ELSE << >>)
    \o (IF sample.hivel < 127 THEN << Line("hivel", 0, sample.hivel) >> ELSE << >>)
    \o points_write(sample.vtpoints)

RECURSIVE samples_write(_)
samples_write(smps) ==
    IF smps = << >> THEN << >>
    ELSE sample_write(Head(smps)) \o samples_write(Tail(smps))

\* StarterInstrument.write
instrument_write(pitch, smps) ==
    << Line("//", 0, pitch), Line("<group>", 0, 0), Line("key", 0, pitch) >>
    \o (IF pitch \in HighHats
        THEN << Line("group", 0, 88), Line("off_by", 0, 88) >> ELSE << >>)
    \o samples_write(smps)

\* the loop of StarterKit.write without the test of len(instrument.samples)
RECURSIVE instruments_write_all(_, _)
instruments_write_all(k, order) ==
    IF order = << >> THEN << >>
    ELSE instrument_write(Head(order), k[Head(order)])
         \o instruments_write_all(k, Tail(order))

\* the loop of StarterKit.write over iter_pitch_by_group()
RECURSIVE instruments_write(_, _)
instruments_write(k, order) ==
    IF order = << >> THEN << >>
    ELSE (IF Len(k[Head(order)]) # 0
          THEN instrument_write(Head(order), k[Head(order)]) ELSE << >>)
         \o instruments_write(k, Tail(order))

\* StarterKit.write
kit_write(k) ==
    << Line("<global>", 0, 0), Line("loop_mode", 0, 0), Line("ampeg_attack", 0, 1) >>
    \o instruments_write(k, PitchOrder)

(* ---- reading a written file back: StarterKit.__init__(filename) ---- *)
IsHeader(line) == line.tag \in {"<global>", "<group>", "<region>"}

\* the opcode lines under the header at index i; // comments are skipped
Body(lines, i) ==
    LET ends == { j \in i + 1 .. Len(lines) : IsHeader(lines[j]) }
        e == IF ends = {} THEN Len(lines)
             ELSE (CHOOSE j \in ends : \A n \in ends : j <= n) - 1
    IN  SelectSeq(SubSeq(lines, i + 1, e), LAMBDA l : l.tag # "//")

\* the <group> header a region stands under, 0 if none
GroupOf(lines, i) ==
    LET gs == { j \in 1 .. i - 1 : lines[j].tag = "<group>" }
    IN  IF gs = {} THEN 0 ELSE CHOOSE j \in gs : \A n \in gs : n <= j

HasOpcode(body, tag) == \E n \in DOMAIN body : body[n].tag = tag

\* the value of an opcode of a header: the last one written wins
Opcode(body, tag) ==
    body[CHOOSE n \in DOMAIN body :
            /\ body[n].tag = tag
            /\ \A m \in DOMAIN body : body[m].tag = tag => m <= n].value

\* region.inherited_opcodes(): the region's own opcodes, then its group's
Inherited(lines, i) ==
    (IF GroupOf(lines, i) = 0 THEN << >> ELSE Body(lines, GroupOf(lines, i)))
    \o Body(lines, i)

\* region.opcodes is a dict keyed by opcode name: assigning a key that is
\* already there keeps its place and replaces its value
RECURSIVE PutPoint(_, _)
PutPoint(points, p) ==
    IF points = << >> THEN << p >>
    ELSE IF Head(points).velocity = p.velocity THEN << p >> \o Tail(points)
    ELSE << Head(points) >> \o PutPoint(Tail(points), p)

\* the amp_velcurve_N opcodes of a region as Velcurve(int(code[13:]),
\* float(opcode.value)); a printed tenth t is the amplitude t/10
RECURSIVE ReadPoints(_, _)
ReadPoints(body, points) ==
    IF body = << >> THEN points
    ELSE ReadPoints(Tail(body),
            IF Head(body).tag = "amp_velcurve"
            THEN PutPoint(points, Velcurve(Head(body).n, 127 * Head(body).value))
            ELSE points)

\* the StarterSample built from the region at index i
ReadSample(lines, i) ==
    LET opcodes == Inherited(lines, i)
        body == Body(lines, i)
    IN  [path     |-> Opcode(body, "sample"),
         lovel    |-> IF HasOpcode(opcodes, "lovel") THEN Opcode(opcodes, "lovel") ELSE 0,
         hivel    |-> IF HasOpcode(opcodes, "hivel") THEN Opcode(opcodes, "hivel")
                      ELSE MAX_VELOCITY,
         volume   |-> IF HasOpcode(opcodes, "volume")
                      THEN 10 * Opcode(opcodes, "volume") ELSE 0,
         vtpoints |-> ReadPoints(body, << >>),
         dirty    |-> FALSE]

\* instrument.samples[starter_sample.path] = starter_sample
RECURSIVE PutSample(_, _)
PutSample(smps, s) ==
    IF smps = << >> THEN << s >>
    ELSE IF Head(smps).path = s.path THEN << s >> \o Tail(smps)
    ELSE << Head(smps) >> \o PutSample(Tail(smps), s)

\* sfz.regions_for(key = pitch), from line i on
RECURSIVE ReadInstrument(_, _, _, _)
ReadInstrument(lines, pitch, i, smps) ==
    IF i > Len(lines) THEN smps
    ELSE ReadInstrument(lines, pitch, i + 1,
            IF /\ lines[i].tag = "<region>"
               /\ HasOpcode(Inherited(lines, i), "key")
               /\ Opcode(Inherited(lines, i), "key") = pitch
               /\ HasOpcode(Body(lines, i), "sample")
            THEN PutSample(smps, ReadSample(lines, i))
            ELSE smps)

\* StarterKit.__init__(filename)
kit_read(lines) == [pitch \in Pitches |-> ReadInstrument(lines, pitch, 1, << >>)]

(* ---- attaching and detaching samples (StarterInstrument) ---- *)
\* StarterInstrument.has_sample
instrument_has_sample(smps, path) == \E i \in DOMAIN smps : smps[i].path = path

\* StarterInstrument.add_sample without the test of the path: the new sample
\* takes the place of the one stored under the same path
add_sample_replace(smps, path) ==
    [raised |-> FALSE, samples |-> PutSample(smps, StarterSample(path))]

\* StarterInstrument.add_sample: the samples it leaves and whether it raised
add_sample(smps, path) ==
    IF instrument_has_sample(smps, path)
    THEN [raised |-> TRUE, samples |-> smps]
    ELSE [raised |-> FALSE, samples |-> Append(smps, StarterSample(path))]

\* StarterInstrument.remove_sample
remove_sample(smps, path) ==
    IF ~instrument_has_sample(smps, path)
    THEN [raised |-> TRUE, samples |-> smps]
    ELSE [raised |-> FALSE, samples |-> RemoveAt(smps, IndexOf(smps, path))]

\* StarterKit.clear_dirty: samples() iterates over the keys of the instruments
\* dict, so the first instrument.samples raises AttributeError before any
\* sample is reached
clear_dirty(k) == [raised |-> TRUE, kit |-> k]

(* ---- handlers ---- *)
\* the samples that hold a curve
Curved(smps) == { smps[i].path : i \in { n \in DOMAIN smps : smps[n].vtpoints # << >> } }

\* history of the handler that ran last: its name, the track and boundary
\* it was about, the velocity, the lovel and hivel the track had before a
\* mouse event, the tracks whose boundary snap changed, whether it unchecked
\* the other check box, the samples that held a curve before, and for a call
\* on the kit the instrument's pitch and whether the call raised
Op(name) ==
    [op |-> name, src |-> 0, feature |-> 0, v |-> 0, before |-> << >>,
     pulled |-> {}, unchecked |-> FALSE, curved |-> Curved(samples),
     pitch |-> 0, raised |-> FALSE]

Init ==
    /\ samples = << >>
    /\ tracks = << >>
    /\ chk_snap = FALSE
    /\ chk_crossfade = FALSE
    /\ update_timer = FALSE
    /\ closed = FALSE
    /\ kit = StarterKit
    /\ stream = << >>
    /\ linked = TRUE
    /\ last = [op |-> "init", src |-> 0, feature |-> 0, v |-> 0, before |-> << >>,
               pulled |-> {}, unchecked |-> FALSE, curved |-> {},
               pitch |-> 0, raised |-> FALSE]

\* SamplesWidget.create_sample -> StarterInstrument.add_sample, add_sample_track
\* (ButtonsTrack.__init__ assigns sample.volume = 0.0), updating()
CreateSample(path) ==
    /\ ~closed
    /\ Len(tracks) < MaxTracks
    /\ ~has_sample(path)
    /\ samples' = SetVolume(Append(samples, StarterSample(path)), path, 0)
    /\ tracks' = Append(tracks, [path |-> path, overlaps |-> << >>])
    /\ update_timer' = TRUE
    /\ last' = [Op("create") EXCEPT !.src = path]
    /\ UNCHANGED <<chk_snap, chk_crossfade>>
    /\ UNCHANGED <<closed, kit, stream, linked>>

\* Timeout of a timer that is not single shot: it stays active
Timeout_repeating ==
    /\ update_timer
    /\ update_timer' = TRUE
    /\ last' = Op("timeout")
    /\ UNCHANGED <<samples, tracks, chk_snap, chk_crossfade>>
    /\ UNCHANGED <<closed, kit, stream, linked>>

\* update_timer.timeout -> SamplesWidget.slot_updated (emits sig_updated)
Timeout ==
    /\ update_timer
    /\ update_timer' = FALSE
    /\ last' = Op("timeout")
    /\ UNCHANGED <<samples, tracks, chk_snap, chk_crossfade>>
    /\ UNCHANGED <<closed, kit, stream, linked>>

\* SnapTargets with the distance compared by < instead of <=
SnapTargets_strict(smps, trks, source, feature) ==
    LET src == SampleOf(smps, source)
    IN  { k \in DOMAIN trks :
            /\ trks[k].path # source
            /\ IF feature = FEATURE_LOVEL
               THEN Abs(src.lovel - SampleOf(smps, trks[k].path).hivel) < SNAP_RANGE
               ELSE Abs(src.hivel - SampleOf(smps, trks[k].path).lovel) < SNAP_RANGE }

\* the other tracks whose boundary slot_value_changed forces in snap mode
SnapTargets(smps, trks, source, feature) ==
    LET src == SampleOf(smps, source)
    IN  { k \in DOMAIN trks :
            /\ trks[k].path # source
            /\ IF feature = FEATURE_LOVEL
               THEN Abs(src.lovel - SampleOf(smps, trks[k].path).hivel) <= SNAP_RANGE
               ELSE Abs(src.hivel - SampleOf(smps, trks[k].path).lovel) <= SNAP_RANGE }

\* the snap branch of SamplesWidget.slot_value_changed
RECURSIVE SnapOthers(_, _, _, _, _)
SnapOthers(smps, trks, source, feature, k) ==
    IF k > Len(trks) THEN smps
    ELSE LET src == SampleOf(smps, source)
             nxt == IF k \in SnapTargets(smps, trks, source, feature)
                    THEN IF feature = FEATURE_LOVEL
                         THEN SetHivel(smps, trks[k].path, src.lovel)
                         ELSE SetLovel(smps, trks[k].path, src.hivel)
                    ELSE smps
         IN  SnapOthers(nxt, trks, source, feature, k + 1)

\* FeatureFor with the interior test written lodiff <= hidiff
FeatureFor_tie_lovel(s, velocity) ==
    IF velocity <= s.lovel THEN FEATURE_LOVEL
    ELSE IF velocity >= s.hivel THEN FEATURE_HIVEL
    ELSE IF Abs(velocity - s.lovel) <= Abs(velocity - s.hivel)
         THEN FEATURE_LOVEL
         ELSE FEATURE_HIVEL

\* the boundary SampleTrack.mouse_event moves for a velocity
FeatureFor(s, velocity) ==
    IF velocity <= s.lovel THEN FEATURE_LOVEL
    ELSE IF velocity >= s.hivel THEN FEATURE_HIVEL
    ELSE IF Abs(velocity - s.lovel) < Abs(velocity - s.hivel)
         THEN FEATURE_LOVEL
         ELSE FEATURE_HIVEL

\* SamplesWidget.slot_value_changed after updating(): snap, else crossfade
slot_value_changed(smps, trks, source, feature) ==
    IF chk_snap
    THEN [samples |-> SnapOthers(smps, trks, source, feature, 1), tracks |-> trks]
    ELSE IF chk_crossfade
         THEN find_overlaps(smps, trks)
         ELSE [samples |-> smps, tracks |-> trks]

\* SampleTrack.mousePressEvent / mouseMoveEvent -> mouse_event, which emits
\* sig_value_changed -> SamplesWidget.slot_value_changed
MouseEvent(k, x) ==
    /\ ~closed
    /\ k \in DOMAIN tracks
    /\ LET path     == tracks[k].path
           velocity == x2v(x)
           feature  == FeatureFor(SampleOf(samples, path), velocity)
           moved    == IF feature = FEATURE_LOVEL
                       THEN SetLovel(samples, path, velocity)
                       ELSE SetHivel(samples, path, velocity)
           r        == slot_value_changed(moved, tracks, path, feature)
       IN  /\ samples' = r.samples
           /\ tracks' = r.tracks
           /\ last' = [Op("mouse") EXCEPT
                         !.src = path, !.feature = feature, !.v = velocity,
                         !.before = << SampleOf(samples, path).lovel,
                                       SampleOf(samples, path).hivel >>,
                         !.pulled = { p \in Paths :
                                        /\ has_sample(p)
                                        /\ p # path
                                        /\ SampleOf(r.samples, p) # SampleOf(samples, p) }]
    /\ update_timer' = TRUE
    /\ UNCHANGED <<chk_snap, chk_crossfade>>
    /\ UNCHANGED <<closed, kit, stream, linked>>

\* slot_track_len_changed: Spread and both check boxes are enabled iff cnt > 1
OptionsEnabled == Len(tracks) > 1

\* SpreadFrom with the boundaries truncated instead of rounded
RECURSIVE SpreadFrom_truncated(_, _, _)
SpreadFrom_truncated(smps, trks, k) ==
    IF k > Len(trks) THEN smps
    ELSE SpreadFrom_truncated(
            SetHivel(SetLovel(smps, trks[k].path,
                              ((k - 1) * MAX_VELOCITY) \div Len(trks)),
                     trks[k].path, (k * MAX_VELOCITY) \div Len(trks)),
            trks, k + 1)

\* the loop of slot_spread: round(i * spread) and round((i + 1) * spread)
RECURSIVE SpreadFrom(_, _, _)
SpreadFrom(smps, trks, k) ==
    IF k > Len(trks) THEN smps
    ELSE SpreadFrom(
            SetHivel(SetLovel(smps, trks[k].path,
                              Round((k - 1) * MAX_VELOCITY, Len(trks))),
                     trks[k].path, Round(k * MAX_VELOCITY, Len(trks))),
            trks, k + 1)

\* SamplesWidget.slot_spread
SlotSpread ==
    /\ ~closed
    /\ OptionsEnabled
    /\ LET r == find_overlaps(SpreadFrom(samples, tracks, 1), tracks)
       IN  /\ samples' = r.samples
           /\ tracks' = r.tracks
    /\ update_timer' = TRUE
    /\ last' = Op("spread")
    /\ UNCHANGED <<chk_snap, chk_crossfade>>
    /\ UNCHANGED <<closed, kit, stream, linked>>

\* slot_snap_state_change without the chk_crossfade.setChecked(0)
slot_snap_state_change_keep(trks) ==
    [chk_crossfade |-> chk_crossfade,
     tracks        |-> clear_overlaps(trks),
     update_timer  |-> update_timer]

\* slot_snap_state_change(state) for state # 0: what happens to the tracks and
\* the timer.  Unchecking chk_crossfade, when it was checked, runs
\* slot_crossfade_state_change(0): clear_overlaps() and updating().
slot_snap_state_change(trks) ==
    [chk_crossfade |-> FALSE,
     tracks        |-> clear_overlaps(trks),
     update_timer  |-> update_timer \/ chk_crossfade]

\* the user clicks chk_snap: stateChanged -> slot_snap_state_change
SnapClicked ==
    /\ ~closed
    /\ OptionsEnabled
    /\ chk_snap' = ~chk_snap
    /\ IF ~chk_snap
       THEN LET r == slot_snap_state_change(tracks)
            IN  /\ chk_crossfade' = r.chk_crossfade
                /\ tracks' = r.tracks
                /\ update_timer' = r.update_timer
       ELSE UNCHANGED <<chk_crossfade, tracks, update_timer>>
    /\ last' = [Op(IF ~chk_snap THEN "snap_on" ELSE "snap_off") EXCEPT
                  !.unchecked = ~chk_snap /\ chk_crossfade]
    /\ UNCHANGED samples
    /\ UNCHANGED <<closed, kit, stream, linked>>

\* the user clicks chk_crossfade: stateChanged -> slot_crossfade_state_change;
\* unchecking chk_snap runs slot_snap_state_change(0), which does nothing
CrossfadeClicked ==
    /\ ~closed
    /\ OptionsEnabled
    /\ chk_crossfade' = ~chk_crossfade
    /\ IF ~chk_crossfade
       THEN LET r == find_overlaps(samples, tracks)
            IN  /\ chk_snap' = FALSE
                /\ samples' = r.samples
                /\ tracks' = r.tracks
       ELSE /\ tracks' = clear_overlaps(tracks)
            /\ UNCHANGED <<chk_snap, samples>>
    /\ update_timer' = TRUE
    /\ last' = [Op(IF ~chk_crossfade THEN "crossfade_on" ELSE "crossfade_off") EXCEPT
                  !.unchecked = ~chk_crossfade /\ chk_snap]
    /\ UNCHANGED <<closed, kit, stream, linked>>

\* ButtonsTrack.slot_value_changed (spin box valueChanged) -> slot_volume_changed
VolumeChanged(k, value) ==
    /\ ~closed
    /\ k \in DOMAIN tracks
    /\ value # SampleOf(samples, tracks[k].path).volume
    /\ samples' = SetVolume(samples, tracks[k].path, value)
    /\ update_timer' = TRUE
    /\ last' = [Op("volume") EXCEPT !.src = tracks[k].path]
    /\ UNCHANGED <<tracks, chk_snap, chk_crossfade>>
    /\ UNCHANGED <<closed, kit, stream, linked>>

\* SamplesWidget.slot_move_up (the first track's up button is disabled)
SlotMoveUp(k) ==
    /\ ~closed
    /\ k \in DOMAIN tracks
    /\ k > 1
    /\ tracks' = Swap(tracks, k, k - 1)
    /\ last' = [Op("move_up") EXCEPT !.src = tracks[k].path]
    /\ UNCHANGED <<samples, chk_snap, chk_crossfade, update_timer>>
    /\ UNCHANGED <<closed, kit, stream, linked>>

\* SamplesWidget.slot_move_down (the last track's down button is disabled)
SlotMoveDown(k) ==
    /\ ~closed
    /\ k \in DOMAIN tracks
    /\ k < Len(tracks)
    /\ tracks' = Swap(tracks, k, k + 1)
    /\ last' = [Op("move_down") EXCEPT !.src = tracks[k].path]
    /\ UNCHANGED <<samples, chk_snap, chk_crossfade, update_timer>>
    /\ UNCHANGED <<closed, kit, stream, linked>>

\* SamplesWidget.slot_delete -> StarterInstrument.remove_sample
SlotDelete(k) ==
    /\ ~closed
    /\ k \in DOMAIN tracks
    /\ samples' = RemoveAt(samples, IndexOf(samples, tracks[k].path))
    /\ tracks' = RemoveAt(tracks, k)
    /\ last' = [Op("delete") EXCEPT !.src = tracks[k].path]
    /\ UNCHANGED <<chk_snap, chk_crossfade, update_timer>>
    /\ UNCHANGED <<closed, kit, stream, linked>>

MouseEvents(xs) == \E k \in 1 .. MaxTracks, x \in xs : MouseEvent(k, x)

\* an editing session of one SamplesWidget
Next ==
    \/ \E p \in Paths : CreateSample(p)
    \/ MouseEvents(MouseXs)
    \/ SlotSpread
    \/ SnapClicked
    \/ CrossfadeClicked
    \/ \E k \in 1 .. MaxTracks, value \in Volumes : VolumeChanged(k, value)
    \/ \E k \in 1 .. MaxTracks : SlotMoveUp(k)
    \/ \E k \in 1 .. MaxTracks : SlotMoveDown(k)
    \/ \E k \in 1 .. MaxTracks : SlotDelete(k)
    \/ Timeout

Spec == Init /\ [][Next]_vars

\* a session of boundary drags, with snap switched on and off, in which the
\* cross fade box and the volumes are left alone
NextDrag ==
    \/ \E p \in Paths : CreateSample(p)
    \/ MouseEvents(DragXs)
    \/ SlotSpread
    \/ SnapClicked
    \/ \E k \in 1 .. MaxTracks : SlotMoveUp(k)
    \/ \E k \in 1 .. MaxTracks : SlotMoveDown(k)
    \/ \E k \in 1 .. MaxTracks : SlotDelete(k)
    \/ Timeout

SpecDrag == Init /\ [][NextDrag]_vars

\* the instruments the curve builder is run on: two to CurveTracks samples
\* whose boundaries were edited to any lovel <= hivel of CurveVels
CurveRanges == { r \in [lovel : CurveVels, hivel : CurveVels] : r.lovel <= r.hivel }

EditedSample(path, range) ==
    [StarterSample(path) EXCEPT !.lovel = range.lovel, !.hivel = range.hivel,
                                !.dirty = TRUE]

InitCurve ==
    /\ \E n \in 2 .. CurveTracks :
         \E ranges \in [1 .. n -> CurveRanges] :
            /\ samples = << >> \o [i \in 1 .. n |-> EditedSample(i, ranges[i])]
            /\ tracks = << >> \o [i \in 1 .. n |-> [path |-> i, overlaps |-> << >>]]
    /\ chk_snap = FALSE
    /\ chk_crossfade = FALSE
    /\ update_timer = FALSE
    /\ closed = FALSE
    /\ kit = StarterKit
    /\ stream = << >>
    /\ linked = TRUE
    /\ last = [op |-> "init", src |-> 0, feature |-> 0, v |-> 0, before |-> << >>,
               pulled |-> {}, unchecked |-> FALSE, curved |-> {},
               pitch |-> 0, raised |-> FALSE]

\* the cross fade box is checked and unchecked on such an instrument
NextCurve ==
    \/ CrossfadeClicked
    \/ Timeout

SpecCurve == InitCurve /\ [][NextCurve]_vars

\* the instruments Spread is run on: two to SpreadTracks samples, fresh or
\* narrowed to the single velocity 64, whose tracks are then moved up
SpreadRanges == { [lovel |-> 0, hivel |-> MAX_VELOCITY], [lovel |-> 64, hivel |-> 64] }

InitSpread ==
    /\ \E n \in 2 .. SpreadTracks :
         \E ranges \in [1 .. n -> SpreadRanges] :
            /\ samples = << >> \o [i \in 1 .. n |-> EditedSample(i, ranges[i])]
            /\ tracks = << >> \o [i \in 1 .. n |-> [path |-> i, overlaps |-> << >>]]
    /\ chk_snap = FALSE
    /\ chk_crossfade = FALSE
    /\ update_timer = FALSE
    /\ closed = FALSE
    /\ kit = StarterKit
    /\ stream = << >>
    /\ linked = TRUE
    /\ last = [op |-> "init", src |-> 0, feature |-> 0, v |-> 0, before |-> << >>,
               pulled |-> {}, unchecked |-> FALSE, curved |-> {},
               pitch |-> 0, raised |-> FALSE]

NextSpread ==
    \/ SlotSpread
    \/ \E k \in 1 .. SpreadTracks : SlotMoveUp(k)
    \/ Timeout

SpecSpread == InitSpread /\ [][NextSpread]_vars

\* the kits that are written: the snare holds up to MaxTracks samples edited
\* to some ranges and volumes, with or without cross fade curves, the hi-hat
\* holds no sample or a fresh one
WriteRanges ==
    { [lovel |-> 0, hivel |-> MAX_VELOCITY], [lovel |-> 0, hivel |-> 70],
      [lovel |-> 50, hivel |-> MAX_VELOCITY] }

EditedInstrument(ranges, volumes, crossfade) ==
    LET smps == << >> \o [i \in DOMAIN ranges |->
                   [EditedSample(i, ranges[i]) EXCEPT !.volume = volumes[i]]]
        trks == << >> \o [i \in DOMAIN ranges |-> [path |-> i, overlaps |-> << >>]]
    IN  IF crossfade THEN find_overlaps(smps, trks).samples ELSE smps

InitWrite ==
    /\ \E n \in 0 .. MaxTracks, hats \in 0 .. 1 :
         \E ranges \in [1 .. n -> WriteRanges], volumes \in [1 .. n -> Volumes],
            crossfade \in BOOLEAN :
            kit = [pitch \in Pitches |->
                     IF pitch \in HighHats
                     THEN << >> \o [i \in 1 .. hats |->
                            EditedSample(i, [lovel |-> 0, hivel |-> MAX_VELOCITY])]
                     ELSE EditedInstrument(ranges, volumes, crossfade)]
    /\ stream = << >>
    /\ linked = FALSE
    /\ samples = << >>
    /\ tracks = << >>
    /\ chk_snap = FALSE
    /\ chk_crossfade = FALSE
    /\ update_timer = FALSE
    /\ closed = FALSE
    /\ last = [op |-> "init", src |-> 0, feature |-> 0, v |-> 0, before |-> << >>,
               pulled |-> {}, unchecked |-> FALSE, curved |-> {},
               pitch |-> 0, raised |-> FALSE]

\* StarterKit.write(stream) into an empty file
WriteKit ==
    /\ stream' = kit_write(kit)
    /\ last' = Op("write")
    /\ UNCHANGED <<samples, tracks, chk_snap, chk_crossfade, update_timer, closed, kit, linked>>

\* StarterKit(filename) on the file written: the kit is replaced by the one read
LoadKit ==
    /\ stream # << >>
    /\ kit' = kit_read(stream)
    /\ linked' = FALSE
    /\ last' = Op("load")
    /\ UNCHANGED <<samples, tracks, chk_snap, chk_crossfade, update_timer, closed, stream>>

NextWrite ==
    \/ WriteKit
    \/ LoadKit

SpecWrite == InitWrite /\ [][NextWrite]_vars

(* ---- calls on the kit: attach, detach, the setters of a sample ---- *)
\* StarterInstrument.add_sample(path) on the instrument of a pitch; a raised
\* RuntimeError leaves the call without effect
AddSample(pitch, path) ==
    /\ kit' = [kit EXCEPT ![pitch] = add_sample(kit[pitch], path).samples]
    /\ last' = [Op("add_sample") EXCEPT !.pitch = pitch, !.src = path,
                    !.raised = add_sample(kit[pitch], path).raised]
    /\ UNCHANGED <<samples, tracks, chk_snap, chk_crossfade, update_timer, closed, stream, linked>>

\* StarterInstrument.remove_sample(path)
RemoveSample(pitch, path) ==
    /\ kit' = [kit EXCEPT ![pitch] = remove_sample(kit[pitch], path).samples]
    /\ last' = [Op("remove_sample") EXCEPT !.pitch = pitch, !.src = path,
                    !.raised = remove_sample(kit[pitch], path).raised]
    /\ UNCHANGED <<samples, tracks, chk_snap, chk_crossfade, update_timer, closed, stream, linked>>

\* sample.lovel = value on a sample of the kit
SampleLovel(pitch, path, value) ==
    /\ instrument_has_sample(kit[pitch], path)
    /\ kit' = [kit EXCEPT ![pitch] = SetLovel(kit[pitch], path, value)]
    /\ last' = [Op("set_lovel") EXCEPT !.pitch = pitch, !.src = path, !.v = value]
    /\ UNCHANGED <<samples, tracks, chk_snap, chk_crossfade, update_timer, closed, stream, linked>>

\* sample.hivel = value
SampleHivel(pitch, path, value) ==
    /\ instrument_has_sample(kit[pitch], path)
    /\ kit' = [kit EXCEPT ![pitch] = SetHivel(kit[pitch], path, value)]
    /\ last' = [Op("set_hivel") EXCEPT !.pitch = pitch, !.src = path, !.v = value]
    /\ UNCHANGED <<samples, tracks, chk_snap, chk_crossfade, update_timer, closed, stream, linked>>

\* sample.volume = value
SampleVolume(pitch, path, value) ==
    /\ instrument_has_sample(kit[pitch], path)
    /\ kit' = [kit EXCEPT ![pitch] = SetVolume(kit[pitch], path, value)]
    /\ last' = [Op("set_volume") EXCEPT !.pitch = pitch, !.src = path, !.v = value]
    /\ UNCHANGED <<samples, tracks, chk_snap, chk_crossfade, update_timer, closed, stream, linked>>

\* sample.vtpoints = value
SampleVtpoints(pitch, path, value) ==
    /\ instrument_has_sample(kit[pitch], path)
    /\ kit' = [kit EXCEPT ![pitch] = SetVtpoints(kit[pitch], path, value)]
    /\ last' = [Op("set_vtpoints") EXCEPT !.pitch = pitch, !.src = path]
    /\ UNCHANGED <<samples, tracks, chk_snap, chk_crossfade, update_timer, closed, stream, linked>>

\* StarterKit.clear_dirty()
ClearDirty ==
    /\ kit' = clear_dirty(kit).kit
    /\ last' = [Op("clear_dirty") EXCEPT !.raised = clear_dirty(kit).raised]
    /\ UNCHANGED <<samples, tracks, chk_snap, chk_crossfade, update_timer, closed, stream, linked>>

\* samples are attached to and detached from the instruments of a new kit,
\* and their lovel is edited
NextKit ==
    \E pitch \in Pitches, path \in Paths :
        \/ AddSample(pitch, path)
        \/ RemoveSample(pitch, path)
        \/ SampleLovel(pitch, path, 50)

SpecKit == Init /\ [][NextKit]_vars

\* the values the setters are called with: the defaults and one other each
SetLovels == {0, 50}
SetHivels == {70, MAX_VELOCITY}
SetCurves == { << >>, << Velcurve(0, 0) >> }

\* the samples of one instrument are attached, edited through every setter
\* and detached
NextDirty ==
    \/ \E path \in Paths :
          \/ AddSample(38, path)
          \/ RemoveSample(38, path)
          \/ \E value \in SetLovels : SampleLovel(38, path, value)
          \/ \E value \in SetHivels : SampleHivel(38, path, value)
          \/ \E value \in Volumes : SampleVolume(38, path, value)
          \/ \E value \in SetCurves : SampleVtpoints(38, path, value)
    \/ ClearDirty

SpecDirty == Init /\ [][NextDirty]_vars

(* ---- the main window around one SamplesWidget (kitstarter_window.py) ---- *)
\* the kit the main window writes: the widget's instrument is the snare
WindowKit == IF linked THEN [kit EXCEPT ![38] = samples] ELSE kit

\* update_timer.timeout -> SamplesWidget.slot_updated -> sig_updated ->
\* MainWindow.slot_updated: the kit is written to the temp file and the
\* synth loads it
SlotUpdated ==
    /\ update_timer
    /\ update_timer' = FALSE
    /\ stream' = kit_write(WindowKit)
    /\ last' = Op("updated")
    /\ UNCHANGED <<samples, tracks, chk_snap, chk_crossfade, closed, kit, linked>>

\* MainWindow.closeEvent: synth.quit(), save_geometry(), os.unlink(tempfile);
\* the widgets' update timers are left as they are
CloseEvent ==
    /\ ~closed
    /\ closed' = TRUE
    /\ stream' = << >>
    /\ last' = Op("close")
    /\ UNCHANGED <<samples, tracks, chk_snap, chk_crossfade, update_timer, kit, linked>>

\* an editing session in the main window, up to and after its close
NextWindow ==
    \/ \E p \in Paths : CreateSample(p)
    \/ \E k \in 1 .. MaxTracks, value \in Volumes : VolumeChanged(k, value)
    \/ \E k \in 1 .. MaxTracks : SlotDelete(k)
    \/ SlotUpdated
    \/ CloseEvent

SpecWindow == Init /\ [][NextWindow]_vars

\* MainWindow.slot_new (File > New): self.kit = StarterKit(), then clear() on
\* every SamplesWidget, which empties its tracks and keeps its instrument
SlotNew ==
    /\ ~closed
    /\ kit' = StarterKit
    /\ linked' = FALSE
    /\ tracks' = << >>
    /\ last' = Op("new")
    /\ UNCHANGED <<samples, chk_snap, chk_crossfade, update_timer, closed, stream>>

\* an editing session in the main window with File > New
NextNew ==
    \/ \E p \in Paths : CreateSample(p)
    \/ \E k \in 1 .. MaxTracks, value \in Volumes : VolumeChanged(k, value)
    \/ \E k \in 1 .. MaxTracks : SlotDelete(k)
    \/ SlotNew
    \/ SlotUpdated

SpecNew == Init /\ [][NextNew]_vars

(* ---- displaying an instrument that holds samples ---- *)
\* the ButtonsTrack.__init__ of every track add_sample_track builds: each
\* one assigns sample.volume = 0.0
RECURSIVE ButtonsTracks(_, _)
ButtonsTracks(smps, i) ==
    IF i > Len(smps) THEN smps
    ELSE ButtonsTracks(SetVolume(smps, smps[i].path, 0), i + 1)

\* SamplesWidget.assign_instrument: clear(), then add_sample_track for every
\* sample of the instrument; the samples and the tracks it leaves
assign_instrument(smps) ==
    [samples |-> ButtonsTracks(smps, 1),
     tracks  |-> << >> \o [i \in DOMAIN smps |->
                             [path |-> smps[i].path, overlaps |-> << >>]]]

\* the widget is given the kit's instrument of a pitch; the samples it shows
\* are the kit's own objects; every add_sample_track ends with updating()
AssignInstrument(pitch) ==
    /\ ~closed
    /\ samples' = assign_instrument(kit[pitch]).samples
    /\ tracks' = assign_instrument(kit[pitch]).tracks
    /\ kit' = [kit EXCEPT ![pitch] = assign_instrument(kit[pitch]).samples]
    /\ update_timer' = (update_timer \/ Len(kit[pitch]) > 0)
    /\ linked' = TRUE
    /\ last' = [Op("assign") EXCEPT !.pitch = pitch]
    /\ UNCHANGED <<chk_snap, chk_crossfade, closed, stream>>

\* an edited kit is written, read back and its instruments are displayed
NextDisplay ==
    \/ WriteKit
    \/ LoadKit
    \/ \E pitch \in Pitches : AssignInstrument(pitch)

SpecDisplay == InitWrite /\ [][NextDisplay]_vars

(* ======================= the claims ======================= *)
Present == { samples[i].path : i \in DOMAIN samples }

Smp(path) == SampleOf(samples, path)

\* C1: after any sequence of boundary-edit mouse events (snap on or off),
\* Spread operations and crossfade recomputations, every range of the
\* instrument satisfies 0 <= lovel <= hivel <= 127.
C1_RangeInvariant ==
    \A i \in DOMAIN samples :
        /\ 0 <= samples[i].lovel
        /\ samples[i].lovel <= samples[i].hivel
        /\ samples[i].hivel <= 127

\* C2: with snap active, a mouse event that moves a boundary of range S to
\* velocity v sets, for every other range T, T.lovel to v if S.hivel was
\* moved and |v - T.lovel| <= 5, and T.hivel to v if S.lovel was moved and
\* |v - T.hivel| <= 5; at a distance greater than 5 that boundary of T keeps
\* its value.
C2_SnapPullsWithinRange ==
    [][ (chk_snap /\ last'.op = "mouse") =>
          LET v == last'.v
          IN  /\ last'.feature = FEATURE_HIVEL =>
                    /\ SampleOf(samples', last'.src).hivel = v
                    /\ \A p \in Present \ {last'.src} :
                          SampleOf(samples', p).lovel =
                             IF Abs(v - Smp(p).lovel) <= 5 THEN v ELSE Smp(p).lovel
              /\ last'.feature = FEATURE_LOVEL =>
                    /\ SampleOf(samples', last'.src).lovel = v
                    /\ \A p \in Present \ {last'.src} :
                          SampleOf(samples', p).hivel =
                             IF Abs(v - Smp(p).hivel) <= 5 THEN v ELSE Smp(p).hivel
      ]_vars

\* a mouse event in snap mode has moved a hivel and pulled the lovel of
\* another range onto it
C2_Witness ==
    /\ last.op = "mouse"
    /\ chk_snap
    /\ last.feature = FEATURE_HIVEL
    /\ Smp(last.src).hivel = last.v
    /\ \E p \in last.pulled : Smp(p).lovel = last.v

\* C3: snap mode and crossfade mode are never both active, whatever the
\* sequence of toggles.
C3_SnapCrossfadeExclusive == ~(chk_snap /\ chk_crossfade)

\* snap was switched on while crossfade was on, which switched crossfade off
C3_Witness ==
    /\ last.op = "snap_on"
    /\ last.unchecked
    /\ chk_snap
    /\ ~chk_crossfade

\* C4: immediately after snap mode is switched on, every range of the
\* instrument has an empty curvePoints list.
C4_SnapOnClearsCurves ==
    last.op = "snap_on" => \A i \in DOMAIN samples : samples[i].vtpoints = << >>

SortedByVelocity(points) ==
    \A i \in 1 .. Len(points) - 1 : points[i].velocity <= points[i + 1].velocity

\* C5: in every reachable state each range with a non-empty curvePoints list
\* has it sorted ascending by velocity, with a point at the range's current
\* lovel and a point at its current hivel.
C5_CurveSortedAndCovering ==
    \A i \in DOMAIN samples :
        LET s == samples[i]
        IN  s.vtpoints # << >> =>
              /\ SortedByVelocity(s.vtpoints)
              /\ \E n \in DOMAIN s.vtpoints : s.vtpoints[n].velocity = s.lovel
              /\ \E n \in DOMAIN s.vtpoints : s.vtpoints[n].velocity = s.hivel

(* ---- the curve builder ---- *)
Point(velocity, amplitude) == [velocity |-> velocity, amplitude |-> amplitude]

\* the intersection window of two ranges, and whether it is an overlap
Window(a, b) ==
    [lovel |-> IF a.lovel >= b.lovel THEN a.lovel ELSE b.lovel,
     hivel |-> IF a.hivel <= b.hivel THEN a.hivel ELSE b.hivel]

Overlapping(a, b) == Window(a, b).lovel < Window(a, b).hivel

\* the handler that ran last has run find_overlaps on the instrument
Built ==
    \/ last.op \in {"crossfade_on", "spread"}
    \/ last.op = "mouse" /\ chk_crossfade /\ ~chk_snap

\* C6: for an instrument of exactly two ranges A and B with
\* A.lovel < B.lovel < A.hivel < B.hivel the overlap window is
\* [B.lovel, A.hivel] and the Curve Builder gives A the points
\* (A.lovel, A.lovel/127), (B.lovel, B.lovel/127), (A.hivel, 0.0) and B the
\* points (B.lovel, 0.0), (A.hivel, A.hivel/127), (B.hivel, B.hivel/127);
\* for [0,70] and [50,127] the first range gets (0, 0.0), (50, 50/127), (70, 0.0).
C6_TwoRangeCrossfade ==
    (Built /\ Len(samples) = 2) =>
        \A a, b \in Present :
            LET A == Smp(a)
                B == Smp(b)
            IN  (A.lovel < B.lovel /\ B.lovel < A.hivel /\ A.hivel < B.hivel) =>
                  /\ overlap(A, B) # << >>
                  /\ overlap(A, B)[1].lovel = B.lovel
                  /\ overlap(A, B)[1].hivel = A.hivel
                  /\ A.vtpoints = << Point(A.lovel, 10 * A.lovel),
                                     Point(B.lovel, 10 * B.lovel),
                                     Point(A.hivel, 0) >>
                  /\ B.vtpoints = << Point(B.lovel, 0),
                                     Point(A.hivel, 10 * A.hivel),
                                     Point(B.hivel, 10 * B.hivel) >>

\* the curves of [0,70] and [50,127] have been built
C6_Witness ==
    /\ last.op = "crossfade_on"
    /\ Len(samples) = 2
    /\ \E a, b \in Present :
          /\ Smp(a).lovel = 0 /\ Smp(a).hivel = 70
          /\ Smp(b).lovel = 50 /\ Smp(b).hivel = 127
          /\ Smp(a).vtpoints = << Point(0, 0), Point(50, 500), Point(70, 0) >>

\* the overlaps recorded on the track of a sample, in recording order
RecordedOn(path) ==
    LET rec == RecordedOverlaps(samples, tracks)
    IN  rec[CHOOSE k \in DOMAIN rec : rec[k].path = path].overlaps

OtherOf(o, path) == IF o.t1 = path THEN o.t2 ELSE o.t1

\* C7: whenever a range R has one overlap whose lovel equals R.lovel and a
\* different overlap whose hivel equals R.hivel, its curve starts with
\* (R.lovel, 0.0) and ends with (R.hivel, 0.0), and every other overlap is
\* treated as a mid_overlap in ascending lovel order.
C7_BothEdgesShared ==
    Built =>
        \A r \in Present : \A p, q \in Present \ {r} :
            LET R == Smp(r)
                shared(lo, hi) ==
                    /\ lo # hi
                    /\ Overlapping(R, Smp(lo)) /\ Window(R, Smp(lo)).lovel = R.lovel
                    /\ Overlapping(R, Smp(hi)) /\ Window(R, Smp(hi)).hivel = R.hivel
            IN  shared(p, q) =>
                  /\ R.vtpoints # << >>
                  /\ R.vtpoints[1] = Point(R.lovel, 0)
                  /\ R.vtpoints[Len(R.vtpoints)] = Point(R.hivel, 0)
                  /\ \E lo, hi \in Present \ {r} :
                        /\ shared(lo, hi)
                        /\ R.vtpoints =
                             << Point(R.lovel, 0),
                                Point(Window(R, Smp(lo)).hivel,
                                      10 * Window(R, Smp(lo)).hivel) >>
                             \o MidPoints(SortByLovel(SelectSeq(RecordedOn(r),
                                   LAMBDA o : OtherOf(o, r) \notin {lo, hi})))
                             \o << Point(Window(R, Smp(hi)).lovel,
                                         10 * Window(R, Smp(hi)).lovel),
                                   Point(R.hivel, 0) >>

HasPoint(s, velocity, amplitude) ==
    \E n \in DOMAIN s.vtpoints : s.vtpoints[n] = Point(velocity, amplitude)

WindowsOf(r) ==
    { Window(Smp(r), Smp(p)) : p \in { q \in Present \ {r} : Overlapping(Smp(r), Smp(q)) } }

C9_NoOverlapNoCurve ==
    Built =>
        \A r \in Present :
            (\A p \in Present \ {r} : ~Overlapping(Smp(r), Smp(p))) =>
                Smp(r).vtpoints = << >>

\* Spread has left a range that held a curve without overlap and without curve
C9_Witness ==
    /\ last.op = "spread"
    /\ \E r \in last.curved :
          /\ r \in Present
          /\ \A p \in Present \ {r} : ~Overlapping(Smp(r), Smp(p))
          /\ Smp(r).vtpoints = << >>

\* C10: an Overlap between two ranges A and B exists iff
\* max(A.lovel, B.lovel) < min(A.hivel, B.hivel), strictly; its window is
\* (max of the lovels, min of the hivels), the same for A.overlap(B) and
\* B.overlap(A); find_overlaps records it exactly once on each of the two
\* ranges (and so builds a curve for exactly the ranges that overlap another).
C10_OverlapStrictSymmetricOnce ==
    LET rec == RecordedOverlaps(samples, tracks)
        on(k) == rec[k].overlaps
    IN  /\ \A k, j \in DOMAIN rec :
              LET a == rec[k].path
                  b == rec[j].path
                  A == Smp(a)
                  B == Smp(b)
                  lo == IF A.lovel >= B.lovel THEN A.lovel ELSE B.lovel
                  hi == IF A.hivel <= B.hivel THEN A.hivel ELSE B.hivel
                  ab == overlap(A, B)
                  ba == overlap(B, A)
                  on_a == { n \in DOMAIN on(k) : {on(k)[n].t1, on(k)[n].t2} = {a, b} }
              IN  k # j =>
                    /\ (ab # << >>) <=> (lo < hi)
                    /\ (ba # << >>) <=> (lo < hi)
                    /\ lo < hi =>
                          /\ ab[1].lovel = lo /\ ab[1].hivel = hi
                          /\ ba[1].lovel = lo /\ ba[1].hivel = hi
                          /\ \A n \in on_a : on(k)[n].lovel = lo /\ on(k)[n].hivel = hi
                    /\ Cardinality(on_a) = IF lo < hi THEN 1 ELSE 0
        /\ \A k \in DOMAIN rec :
              \A n \in DOMAIN on(k) :
                  /\ rec[k].path \in {on(k)[n].t1, on(k)[n].t2}
                  /\ on(k)[n].t1 # on(k)[n].t2
        /\ Built =>
              \A a \in Present :
                  (Smp(a).vtpoints # << >>) <=>
                      \E b \in Present \ {a} : Overlapping(Smp(a), Smp(b))

\* find_overlaps has run on the abutting ranges [0,50] and [50,127] and on a
\* third range, [0,70], that overlaps both
C10_Witness ==
    /\ last.op = "crossfade_on"
    /\ Len(samples) = 3
    /\ \E a, b, c \in Present :
          /\ Smp(a).lovel = 0 /\ Smp(a).hivel = 50
          /\ Smp(b).lovel = 50 /\ Smp(b).hivel = 127
          /\ Smp(c).lovel = 0 /\ Smp(c).hivel = 70
          /\ Len(RecordedOn(a)) = 1
          /\ Len(RecordedOn(b)) = 1
          /\ Len(RecordedOn(c)) = 2

\* C11: a boundary-edit event at velocity v on range R changes exactly one
\* boundary of R: lovel := v if v <= R.lovel; otherwise hivel := v if
\* v >= R.hivel; otherwise the boundary numerically closer to v, hivel when
\* the two distances are equal; the other boundary of R keeps its value and
\* the reported feature names the moved boundary.
C11_OneBoundaryMoved ==
    last.op = "mouse" =>
        LET v  == last.v
            lo == last.before[1]
            hi == last.before[2]
            R  == Smp(last.src)
            lovel_moved == R.lovel = v /\ R.hivel = hi /\ last.feature = FEATURE_LOVEL
            hivel_moved == R.hivel = v /\ R.lovel = lo /\ last.feature = FEATURE_HIVEL
        IN  IF v <= lo THEN lovel_moved
            ELSE IF v >= hi THEN hivel_moved
            ELSE IF Abs(v - lo) < Abs(v - hi) THEN lovel_moved
            ELSE IF Abs(v - lo) > Abs(v - hi) THEN hivel_moved
            ELSE hivel_moved

\* a mouse event at velocity 80, as far from lovel 64 as from hivel 96, has
\* moved the hivel
C11_Witness ==
    /\ last.op = "mouse"
    /\ last.before = <<64, 96>>
    /\ last.v = 80
    /\ last.feature = FEATURE_HIVEL
    /\ Smp(last.src).lovel = 64
    /\ Smp(last.src).hivel = 80

\* b = round(n / d), halves rounded to the even neighbour
IsRounded(b, n, d) ==
    \/ 2 * Abs(d * b - n) < d
    \/ 2 * Abs(d * b - n) = d /\ b % 2 = 0

\* the boundaries Spread has left, in display order
Boundaries ==
    << Smp(tracks[1].path).lovel >>
        \o [k \in 1 .. Len(tracks) |-> Smp(tracks[k].path).hivel]

\* C12: Spread on an instrument with N > 0 displayed ranges sets, for the
\* i-th displayed range (i = 0..N-1), lovel = round(i*127/N) and
\* hivel = round((i+1)*127/N); so the first lovel is 0, the last hivel is 127,
\* every range's hivel equals the next range's lovel, and for N = 4 the
\* boundaries are [0, 32, 64, 95, 127].
C12_SpreadBoundaries ==
    last.op = "spread" =>
        LET N == Len(tracks)
        IN  /\ \A k \in 1 .. N :
                  /\ IsRounded(Smp(tracks[k].path).lovel, (k - 1) * 127, N)
                  /\ IsRounded(Smp(tracks[k].path).hivel, k * 127, N)
            /\ Smp(tracks[1].path).lovel = 0
            /\ Smp(tracks[N].path).hivel = 127
            /\ \A k \in 1 .. N - 1 :
                  Smp(tracks[k].path).hivel = Smp(tracks[k + 1].path).lovel
            /\ N = 2 => Boundaries = <<0, 64, 127>>
            /\ N = 3 => Boundaries = <<0, 42, 85, 127>>
            /\ N = 4 => Boundaries = <<0, 32, 64, 95, 127>>

\* Spread has run on four ranges displayed in another order than they were
\* attached in
C12_Witness ==
    /\ last.op = "spread"
    /\ Len(tracks) = 4
    /\ tracks[1].path # 1
    /\ Boundaries = <<0, 32, 64, 95, 127>>

(* ---- serialization ---- *)
\* the <region> headers of a written file that stand under key = pitch and
\* name the sample path
RegionsOf(lines, pitch, path) ==
    { i \in DOMAIN lines :
        /\ lines[i].tag = "<region>"
        /\ GroupOf(lines, i) # 0
        /\ Line("key", 0, pitch) \in
              { Body(lines, GroupOf(lines, i))[n] : n \in DOMAIN Body(lines, GroupOf(lines, i)) }
        /\ Line("sample", 0, path) \in { Body(lines, i)[n] : n \in DOMAIN Body(lines, i) } }

WithTag(body, tag) == SelectSeq(body, LAMBDA l : l.tag = tag)

\* C13: serializing a range always emits its sample= line, emits volume= iff
\* volume != 0.0, lovel= iff lovel > 0, hivel= iff hivel < 127, and one
\* amp_velcurve line per curve point in stored order; a range with lovel=0,
\* hivel=127, volume=0.0 and no curve points emits only the sample= line
\* within its region block.
C13_RegionLines ==
    last.op = "write" =>
        \A pitch \in Pitches : \A k \in DOMAIN kit[pitch] :
            LET s == kit[pitch][k]
                at == RegionsOf(stream, pitch, s.path)
            IN  /\ Cardinality(at) = 1
                /\ \A i \in at :
                      LET body == Body(stream, i)
                          curve == WithTag(body, "amp_velcurve")
                      IN  /\ WithTag(body, "sample") = << Line("sample", 0, s.path) >>
                          /\ WithTag(body, "volume") =
                                IF s.volume # 0 THEN << Line("volume", 0, s.volume \div 10) >>
                                ELSE << >>
                          /\ WithTag(body, "lovel") =
                                IF s.lovel > 0 THEN << Line("lovel", 0, s.lovel) >> ELSE << >>
                          /\ WithTag(body, "hivel") =
                                IF s.hivel < 127 THEN << Line("hivel", 0, s.hivel) >> ELSE << >>
                          /\ Len(curve) = Len(s.vtpoints)
                          /\ \A n \in DOMAIN curve :
                                /\ curve[n].n = s.vtpoints[n].velocity
                                /\ 2 * Abs(127 * curve[n].value - s.vtpoints[n].amplitude) <= 127
                          /\ Len(body) = Len(WithTag(body, "sample")) + Len(WithTag(body, "volume"))
                                         + Len(WithTag(body, "lovel")) + Len(WithTag(body, "hivel"))
                                         + Len(curve)
                          /\ (s.lovel = 0 /\ s.hivel = 127 /\ s.volume = 0 /\ s.vtpoints = << >>)
                                => body = << Line("sample", 0, s.path) >>

\* a kit has been written in which the hi-hat sample has all defaults and a
\* snare sample has a volume, a lovel above 0 and a cross fade curve
C13_Witness ==
    /\ last.op = "write"
    /\ Len(kit[42]) = 1
    /\ \A i \in RegionsOf(stream, 42, 1) : Body(stream, i) = << Line("sample", 0, 1) >>
    /\ \E k \in DOMAIN kit[38] :
          /\ kit[38][k].volume = -3000
          /\ kit[38][k].lovel = 50
          /\ kit[38][k].vtpoints # << >>
          /\ \E i \in RegionsOf(stream, 38, kit[38][k].path) :
                /\ Line("volume", 0, -300) = Body(stream, i)[2]
                /\ Line("lovel", 0, 50) = Body(stream, i)[3]

\* the position of a pitch in the pitch-group order
PitchRank(pitch) == CHOOSE n \in DOMAIN PitchOrder : PitchOrder[n] = pitch

\* C14: kit serialization emits the global header exactly once, then a group
\* block for an instrument iff that instrument has at least one sample, with
\* the group blocks in the fixed pitch-group order.
C14_HeaderAndGroups ==
    last.op = "write" =>
        LET keys == WithTag(stream, "key")
        IN  /\ stream[1] = Line("<global>", 0, 0)
            /\ Len(WithTag(stream, "<global>")) = 1
            /\ Len(WithTag(stream, "<group>")) = Len(keys)
            /\ \A pitch \in Pitches :
                  Len(SelectSeq(keys, LAMBDA l : l.value = pitch)) =
                      IF Len(kit[pitch]) >= 1 THEN 1 ELSE 0
            /\ \A i, j \in DOMAIN keys :
                  i < j => PitchRank(keys[i].value) < PitchRank(keys[j].value)
            /\ \A i \in DOMAIN stream :
                  stream[i].tag = "<region>" => GroupOf(stream, i) # 0

\* a kit whose two instruments both hold samples has been written
C14_Witness ==
    /\ last.op = "write"
    /\ Len(kit[38]) = 2
    /\ Len(kit[42]) = 1
    /\ WithTag(stream, "key") = << Line("key", 0, 38), Line("key", 0, 42) >>

\* C15: for every kit state reachable by editing, serializing the kit,
\* re-reading the emitted text into a new kit and serializing again yields
\* output identical to the first serialization.
C15_RoundTrip ==
    last.op = "write" => kit_write(kit_read(stream)) = stream

(* ---- attach and detach ---- *)
PathsOf(smps) == { smps[i].path : i \in DOMAIN smps }

\* C16: attaching a path already present on an instrument fails and
\* detaching a path that is not present fails; in both cases the
\* instrument's samples (keys and the ranges they map to) are unchanged, so
\* sample paths within one instrument stay unique after any sequence of
\* attach and detach calls.
C16_AttachDetachErrors ==
    [][ /\ (last'.op = "add_sample" /\ last'.src \in PathsOf(kit[last'.pitch]))
            => (last'.raised /\ kit' = kit)
        /\ (last'.op = "remove_sample" /\ last'.src \notin PathsOf(kit[last'.pitch]))
            => (last'.raised /\ kit' = kit)
        /\ last'.raised => kit' = kit
        /\ \A pitch \in Pitches :
              Cardinality(PathsOf(kit'[pitch])) = Len(kit'[pitch]) ]_vars

\* an attach of a path whose sample was edited has just failed on an
\* instrument that holds two samples
C16_Witness ==
    /\ last.op = "add_sample"
    /\ last.raised
    /\ Len(kit[last.pitch]) = 2
    /\ SampleOf(kit[last.pitch], last.src).lovel = 50

(* ---- notifications ---- *)
\* C17: every mutation of an instrument made through its SamplesWidget
\* (adding a sample, deleting a sample, moving a boundary, changing a volume,
\* Spread, toggling cross fade) emits sig_updating within the same handler
\* and (re)starts the debounce timer, so that sig_updated follows.
C17_EveryMutationStartsTimer ==
    last.op \in {"create", "delete", "mouse", "volume", "spread",
                 "crossfade_on", "crossfade_off"}
        => update_timer

C19_NoSettledAfterClose ==
    closed => (last.op # "updated" /\ stream = << >>)

C21_FindOverlapsIdempotent ==
    last.op = "crossfade_on" =>
        LET again == find_overlaps(samples, tracks).samples
        IN  \A i \in DOMAIN samples :
               /\ again[i].path = samples[i].path
               /\ again[i].vtpoints = samples[i].vtpoints

\* find_overlaps has run on an instrument in which one range lies inside
\* another, so that a track is left with a mid overlap in its list
C21_Witness ==
    /\ last.op = "crossfade_on"
    /\ \E k \in DOMAIN tracks :
          /\ tracks[k].overlaps # << >>
          /\ Len(SampleOf(samples, tracks[k].path).vtpoints) >= 5

\* C22: while cross fade is checked, after every completed handler (boundary
\* edit, sample added, sample deleted, Spread) the curve points of every
\* range equal the curve builder's output for the instrument's current
\* ranges.
C22_CurvesCurrentInCrossfade ==
    (chk_crossfade /\ last.op \in {"mouse", "create", "delete", "spread"}) =>
        LET built == find_overlaps(samples, tracks).samples
        IN  \A i \in DOMAIN samples : samples[i].vtpoints = built[i].vtpoints

(* ---- display ---- *)
\* C23: displaying an existing sample in a SamplesWidget (assign_instrument /
\* add_sample_track) leaves that sample's lovel, hivel, volume, curve points
\* and dirty flag unchanged.
C23_DisplayLeavesSamples ==
    [][ last'.op = "assign" =>
           /\ samples' = kit[last'.pitch]
           /\ kit' = kit ]_vars

\* C24: in every reachable state of the main window, including after
\* File > New, the widget's tracks correspond one-to-one to the samples of
\* the instrument the current kit holds for the pitch, and every sample
\* added through the widget appears in the next serialization of the kit.
C24_WidgetShowsKitInstrument ==
    /\ Len(tracks) = Len(WindowKit[38])
    /\ { tracks[k].path : k \in DOMAIN tracks } = PathsOf(WindowKit[38])
    /\ last.op = "updated" =>
          \A k \in DOMAIN tracks : RegionsOf(stream, 38, tracks[k].path) # {}

(* ---- curve points as opcode keys ---- *)
\* C25: for every range in every reachable state, no two entries of its
\* curve points have the same velocity, so a serialized region never
\* contains two amp_velcurve lines with the same velocity key.
C25_DistinctCurveVelocities ==
    \A i \in DOMAIN samples :
       \A a, b \in DOMAIN samples[i].vtpoints :
          a # b => samples[i].vtpoints[a].velocity # samples[i].vtpoints[b].velocity
====
